---- MODULE Spec2Model ----
(***************************************************************************)
(* A model of libxc-rs: the Functional handle (src/src/functional.rs) and  *)
(* the library query functions (src/src/util.rs) over an abstract native   *)
(* LibXC library.  The native library is the environment: a static table   *)
(* of functionals (keys) and a heap of xc_func_type allocations.           *)
(***************************************************************************)
EXTENDS Integers, Sequences, FiniteSets, TLC

VARIABLES
    keys,      \* the native library's static table: the functional IDs, in table order
    heap,      \* native allocations made by xc_func_alloc, by pointer
    handles,   \* the Functional values the caller holds, by binding
    ctor_id,   \* for each binding, the id its Functional was constructed with
    calls,     \* the native calls made by the last operation, in order
    last       \* the last operation: its name, its arguments and what it returned

vars == <<keys, heap, handles, ctor_id, calls, last>>

----------------------------------------------------------------------------
(* Bounds of the model. *)

MaxId == 2        \* functional IDs of the native table are drawn from 0..MaxId
MaxReal == 2      \* the native table holds at most MaxReal functionals
MaxHandles == 2   \* bindings the caller has for Functional values
MaxAllocs == 1    \* native allocations xc_func_alloc can make
MaxCount == 60    \* native counts fed to the buffer length computation

----------------------------------------------------------------------------
(* Values. *)

Range(s) == {s[i] : i \in 1..Len(s)}

NULL == 0

Ok(v) == [kind |-> "Ok", val |-> v]
Err(e) == [kind |-> "Err", val |-> e]
Panic(why) == [kind |-> "panic", val |-> why]

\* FunctionalError, src/src/error.rs
FailedInitialization(c) == <<"FailedInitialization", c>>
InvalidID == <<"InvalidID", 0>>
InvalidName == <<"InvalidName", 0>>

\* Polarization and its ToPrimitive conversion
Polarizations == {"Unpolarized", "Polarized"}
PolarizationToI32(p) == IF p = "Unpolarized" THEN 1 ELSE 2

\* Names: the canonical name of functional i, a name no table holds, and a
\* name with an interior NUL byte (which CString::new rejects).
NameOf(i) == <<"xc", i>>
BadName == <<"INVALID_NAME", 0>>
NulName == <<"nul", 0>>
NameInputs == {NameOf(i) : i \in 0..MaxId} \cup {BadName, NulName}
IdInputs == (0 - 1)..(MaxId + 1)

\* A native call of the log: the function, its argument, what it returned.
Call(f, a, r) == [fn |-> f, arg |-> a, ret |-> r]

----------------------------------------------------------------------------
(* The native library (LibXC), reached through libxc_sys. *)

Tables == {s \in UNION {[1..n -> 0..MaxId] : n \in 0..MaxReal} :
             \A i, j \in 1..Len(s) : i # j => s[i] # s[j]}

\* Position of id in the static table, NULL when the table does not hold it.
InfoOf(id) == IF \E i \in 1..Len(keys) : keys[i] = id
              THEN CHOOSE i \in 1..Len(keys) : keys[i] = id
              ELSE NULL

\* The count the library reports: one more than the enumerable IDs.
xc_number_of_functionals == Len(keys) + 1

\* The IDs the bulk enumeration writes into the caller's buffer.
xc_available_functional_numbers == keys

\* Negative when no functional has the name.
xc_functional_get_number(name) ==
    IF \E i \in 1..Len(keys) : NameOf(keys[i]) = name
    THEN keys[CHOOSE i \in 1..Len(keys) : NameOf(keys[i]) = name]
    ELSE 0 - 1

\* The name buffer of a functional, NULL for an ID the table does not hold.
NullBuf == <<"NULL", 0>>
xc_functional_get_name(id) == IF InfoOf(id) # NULL THEN NameOf(id) ELSE NullBuf

\* Statuses a failing initialization can report.
InitFailCodes == {0 - 2, 1}

\* Status of xc_func_init(p, id, nspin): 0 exactly for an ID of the table,
\* and otherwise c, the nonzero status the library reports for this call.
xc_func_init(id, nspin, c) ==
    IF InfoOf(id) # NULL /\ nspin \in {1, 2} THEN 0 ELSE c

xc_func_info_get_number(info) == keys[info]
xc_func_info_get_name(info) == NameOf(keys[info])

FreshAlloc == [state |-> "unalloc", info |-> NULL, frees |-> 0]

\* The pointer malloc hands out next.
xc_func_alloc(hp) ==
    CHOOSE p \in 1..MaxAllocs :
        hp[p].state = "unalloc" /\ \A q \in 1..(p - 1) : hp[q].state # "unalloc"

CanAlloc(hp) == \E p \in 1..MaxAllocs : hp[p].state = "unalloc"

xc_func_get_info(hp, p) == hp[p].info

----------------------------------------------------------------------------
(* usize: 64-bit unsigned integers, as four 16-bit limbs, most significant  *)
(* first.                                                                  *)

Limb == 65536
UsizeZero == <<0, 0, 0, 0>>
UsizeMax == <<Limb - 1, Limb - 1, Limb - 1, Limb - 1>>

\* `n as usize` for an i32 n: sign extension to 64 bits.
I32AsUsize(n) ==
    IF n >= 0 THEN <<0, 0, n \div Limb, n % Limb>>
    ELSE <<Limb - 1, Limb - 1, (n \div Limb) + Limb, n % Limb>>

\* a - 1 modulo 2^64.
UsizeWrappingDec(a) ==
    IF a[4] > 0 THEN [a EXCEPT ![4] = a[4] - 1]
    ELSE IF a[3] > 0 THEN [a EXCEPT ![3] = a[3] - 1, ![4] = Limb - 1]
    ELSE IF a[2] > 0 THEN [a EXCEPT ![2] = a[2] - 1, ![3] = Limb - 1, ![4] = Limb - 1]
    ELSE IF a[1] > 0 THEN [a EXCEPT ![1] = a[1] - 1, ![2] = Limb - 1,
                                    ![3] = Limb - 1, ![4] = Limb - 1]
    ELSE UsizeMax

UsizeLeq(a, b) ==
    \/ a = b
    \/ \E i \in 1..4 : a[i] < b[i] /\ \A j \in 1..(i - 1) : a[j] = b[j]

\* The value of a usize below 2^31.
UsizeSmall(a) == a[1] = 0 /\ a[2] = 0 /\ a[3] < Limb \div 2
UsizeToInt(a) == a[3] * Limb + a[4]

\* What a build can do: with overflow checks (debug) or without (release),
\* and the value a read of uninitialized memory yields.
Garbage == {0 - 7, 1}
Builds == [checks : BOOLEAN, garbage : Garbage]

----------------------------------------------------------------------------
(* src/src/util.rs *)

\* SubOne without the subtraction: the buffer is given the full count.
SubOne_full_count(n_funcs, bld) == Ok(n_funcs)

\* `n_funcs - 1` on usize: aborts under overflow checks, wraps without them.
SubOne(n_funcs, bld) ==
    IF n_funcs = UsizeZero /\ bld.checks
    THEN Panic("attempt to subtract with overflow")
    ELSE Ok(UsizeWrappingDec(n_funcs))

\* The buffer length available_functional_numbers computes from the count.
BufferLength(n, bld) ==
    LET n_funcs == I32AsUsize(n)
    IN  SubOne(n_funcs, bld)

\* Vec::<i32>::with_capacity(length) aborts above isize::MAX bytes; a length
\* computed from an i32 count is either below 2^31 or above 2^63.
CapacityOverflow(length) == ~UsizeSmall(length)

_rust_string_from_c_buf(c_buf) ==
    IF c_buf = NullBuf THEN <<"undefined", 0>> ELSE c_buf

\* functional_number rejecting 0 along with the negative values.
functional_number_nonpositive(name) ==
    IF name = NulName
    THEN [res |-> Panic("CString::new"), calls |-> <<>>]
    ELSE LET number == xc_functional_get_number(name)
             log == <<Call("xc_functional_get_number", name, number)>>
         IN  IF number <= 0
             THEN [res |-> Err(InvalidName), calls |-> log]
             ELSE [res |-> Ok(number), calls |-> log]

functional_number(name) ==
    IF name = NulName
    THEN [res |-> Panic("CString::new"), calls |-> <<>>]
    ELSE LET number == xc_functional_get_number(name)
             log == <<Call("xc_functional_get_number", name, number)>>
         IN  IF number < 0
             THEN [res |-> Err(InvalidName), calls |-> log]
             ELSE [res |-> Ok(number), calls |-> log]

number_of_functionals ==
    [res |-> xc_number_of_functionals,
     calls |-> <<Call("xc_number_of_functionals", <<>>, xc_number_of_functionals)>>]

\* Vec::from_raw_parts(ptr, length, length) over the buffer the library
\* wrote: slots it did not write hold uninitialized memory.
FromRawParts(written, length, bld) ==
    [i \in 1..length |-> IF i <= Len(written) THEN written[i] ELSE bld.garbage]

available_functional_numbers(bld) ==
    LET n == number_of_functionals
        length == BufferLength(n.res, bld)
    IN  IF length.kind = "panic"
        THEN [res |-> length, calls |-> n.calls]
        ELSE IF CapacityOverflow(length.val)
        THEN [res |-> Panic("capacity overflow"), calls |-> n.calls]
        ELSE LET cap == UsizeToInt(length.val)
                 written == xc_available_functional_numbers
                 log == n.calls \o
                        <<Call("xc_available_functional_numbers", cap, Len(written))>>
             IN  IF Len(written) > cap
                 THEN [res |-> [kind |-> "undefined", val |-> "buffer overrun"],
                       calls |-> log]
                 ELSE [res |-> Ok(FromRawParts(written, cap, bld)), calls |-> log]

\* functional_name asking the library without the membership check.
functional_name_unchecked(number, bld) ==
    LET c_buf == xc_functional_get_name(number)
        log == <<Call("xc_functional_get_name", number, c_buf)>>
    IN  IF c_buf = NullBuf
        THEN [res |-> Err(InvalidID), calls |-> log]
        ELSE [res |-> Ok(_rust_string_from_c_buf(c_buf)), calls |-> log]

functional_name(number, bld) ==
    LET numbers == available_functional_numbers(bld)
    IN  IF numbers.res.kind # "Ok"
        THEN numbers
        ELSE IF number \in Range(numbers.res.val)
        THEN LET c_buf == xc_functional_get_name(number)
             IN  [res |-> Ok(_rust_string_from_c_buf(c_buf)),
                  calls |-> numbers.calls \o
                            <<Call("xc_functional_get_name", number, c_buf)>>]
        ELSE [res |-> Err(InvalidID), calls |-> numbers.calls]

\* numbers.iter().map(|number| functional_name(*number).unwrap()).collect()
RECURSIVE MapNames(_, _, _)
MapNames(numbers, bld, acc) ==
    IF numbers = <<>> THEN [res |-> Ok(acc.names), calls |-> acc.calls]
    ELSE LET r == functional_name(Head(numbers), bld)
         IN  IF r.res.kind # "Ok"
             THEN [res |-> Panic("unwrap"), calls |-> acc.calls \o r.calls]
             ELSE MapNames(Tail(numbers), bld,
                           [names |-> Append(acc.names, r.res.val),
                            calls |-> acc.calls \o r.calls])

available_functional_names(bld) ==
    LET numbers == available_functional_numbers(bld)
    IN  IF numbers.res.kind # "Ok"
        THEN numbers
        ELSE MapNames(numbers.res.val, bld, [names |-> <<>>, calls |-> numbers.calls])

----------------------------------------------------------------------------
(* src/src/functional.rs *)

NoHandle == [xc_func |-> NULL, xc_info |-> NULL]
Bound(h) == handles[h] # NoHandle
\* The binding a new Functional value is given: the first free one.
FreeBinding(h) == ~Bound(h) /\ \A k \in 1..(h - 1) : Bound(k)

\* from_id fetching the info pointer before it looks at the status.
from_id_early_info(hp, id, polarization, c) ==
    LET pol == PolarizationToI32(polarization)
        xc_func == xc_func_alloc(hp)
        hp1 == [hp EXCEPT ![xc_func].state = "live"]
        init_result == xc_func_init(id, pol, c)
        hp2 == IF init_result = 0
               THEN [hp1 EXCEPT ![xc_func].info = InfoOf(id)]
               ELSE hp1
        xc_info == xc_func_get_info(hp2, xc_func)
        log == <<Call("xc_func_alloc", <<>>, xc_func),
                 Call("xc_func_init", <<xc_func, id, pol>>, init_result),
                 Call("xc_func_get_info", xc_func, xc_info)>>
    IN  IF init_result # 0
        THEN [res |-> Err(FailedInitialization(init_result)), heap |-> hp2, calls |-> log]
        ELSE [res |-> Ok([xc_func |-> xc_func, xc_info |-> xc_info]),
              heap |-> hp2, calls |-> log]

\* from_id passing its two i32 arguments to xc_func_init in the wrong order.
from_id_swapped(hp, id, polarization, c) ==
    LET pol == PolarizationToI32(polarization)
        xc_func == xc_func_alloc(hp)
        hp1 == [hp EXCEPT ![xc_func].state = "live"]
        init_result == xc_func_init(pol, id, c)
        hp2 == IF init_result = 0
               THEN [hp1 EXCEPT ![xc_func].info = InfoOf(pol)]
               ELSE hp1
        log == <<Call("xc_func_alloc", <<>>, xc_func),
                 Call("xc_func_init", <<xc_func, pol, id>>, init_result)>>
    IN  IF init_result # 0
        THEN [res |-> Err(FailedInitialization(init_result)), heap |-> hp2, calls |-> log]
        ELSE LET xc_info == xc_func_get_info(hp2, xc_func)
             IN  [res |-> Ok([xc_func |-> xc_func, xc_info |-> xc_info]),
                  heap |-> hp2,
                  calls |-> Append(log, Call("xc_func_get_info", xc_func, xc_info))]

from_id(hp, id, polarization, c) ==
    LET pol == PolarizationToI32(polarization)
        xc_func == xc_func_alloc(hp)
        hp1 == [hp EXCEPT ![xc_func].state = "live"]
        init_result == xc_func_init(id, pol, c)
        hp2 == IF init_result = 0
               THEN [hp1 EXCEPT ![xc_func].info = InfoOf(id)]
               ELSE hp1
        log == <<Call("xc_func_alloc", <<>>, xc_func),
                 Call("xc_func_init", <<xc_func, id, pol>>, init_result)>>
    IN  IF init_result # 0
        THEN [res |-> Err(FailedInitialization(init_result)), heap |-> hp2, calls |-> log]
        ELSE LET xc_info == xc_func_get_info(hp2, xc_func)
             IN  [res |-> Ok([xc_func |-> xc_func, xc_info |-> xc_info]),
                  heap |-> hp2,
                  calls |-> Append(log, Call("xc_func_get_info", xc_func, xc_info))]

\* from_name reporting a failed name lookup as an invalid ID.
from_name_invalid_id(hp, name, polarization, c) ==
    LET r == functional_number(name)
    IN  IF r.res.kind = "Ok"
        THEN LET f == from_id(hp, r.res.val, polarization, c)
             IN  [res |-> f.res, heap |-> f.heap, calls |-> r.calls \o f.calls]
        ELSE [res |-> Err(InvalidID), heap |-> hp, calls |-> r.calls]

from_name(hp, name, polarization, c) ==
    LET r == functional_number(name)
    IN  IF r.res.kind = "Ok"
        THEN LET f == from_id(hp, r.res.val, polarization, c)
             IN  [res |-> f.res, heap |-> f.heap, calls |-> r.calls \o f.calls]
        ELSE [res |-> r.res, heap |-> hp, calls |-> r.calls]

\* #[derive(Clone)]: each field is copied.
clone(f) == [xc_func |-> f.xc_func, xc_info |-> f.xc_info]

number(f) == xc_func_info_get_number(f.xc_info)
name(f) == _rust_string_from_c_buf(xc_func_info_get_name(f.xc_info))

----------------------------------------------------------------------------
(* The operations a caller can perform. *)

Init ==
    /\ keys \in Tables
    /\ heap = [p \in 1..MaxAllocs |-> FreshAlloc]
    /\ handles = [h \in 1..MaxHandles |-> NoHandle]
    /\ ctor_id = [h \in 1..MaxHandles |-> 0]
    /\ calls = <<>>
    /\ last = [op |-> "start", arg |-> <<>>, res |-> Ok(<<>>)]

\* let h = Functional::from_id(id, p)
Bind(h, r, id) ==
    /\ heap' = r.heap
    /\ calls' = r.calls
    /\ IF r.res.kind = "Ok"
       THEN /\ handles' = [handles EXCEPT ![h] = r.res.val]
            /\ ctor_id' = [ctor_id EXCEPT ![h] = id]
       ELSE UNCHANGED <<handles, ctor_id>>

FromId(h, id, p, c) ==
    /\ FreeBinding(h)
    /\ CanAlloc(heap)
    /\ LET r == from_id(heap, id, p, c)
       IN  /\ Bind(h, r, id)
           /\ last' = [op |-> "from_id", arg |-> <<id, p>>, res |-> r.res]
    /\ UNCHANGED keys

FromName(h, nm, p, c) ==
    /\ FreeBinding(h)
    /\ CanAlloc(heap)
    /\ LET r == from_name(heap, nm, p, c)
       IN  /\ Bind(h, r, xc_functional_get_number(nm))
           /\ last' = [op |-> "from_name", arg |-> <<nm, p>>, res |-> r.res]
    /\ UNCHANGED keys

Clone(h, h2) ==
    /\ Bound(h)
    /\ FreeBinding(h2)
    /\ handles' = [handles EXCEPT ![h2] = clone(handles[h])]
    /\ ctor_id' = [ctor_id EXCEPT ![h2] = ctor_id[h]]
    /\ calls' = <<>>
    /\ last' = [op |-> "clone", arg |-> <<h, h2>>, res |-> Ok(clone(handles[h]))]
    /\ UNCHANGED <<keys, heap>>

\* A Functional goes out of scope.  The type has no Drop implementation, so
\* no native call is made.
Drop(h) ==
    /\ Bound(h)
    /\ handles' = [handles EXCEPT ![h] = NoHandle]
    /\ ctor_id' = [ctor_id EXCEPT ![h] = 0]
    /\ calls' = <<>>
    /\ last' = [op |-> "drop", arg |-> h, res |-> Ok(handles[h])]
    /\ UNCHANGED <<keys, heap>>

Number(h) ==
    /\ Bound(h)
    /\ calls' = <<Call("xc_func_info_get_number", handles[h].xc_info, number(handles[h]))>>
    /\ last' = [op |-> "number", arg |-> h, res |-> Ok(number(handles[h]))]
    /\ UNCHANGED <<keys, heap, handles, ctor_id>>

Name(h) ==
    /\ Bound(h)
    /\ calls' = <<Call("xc_func_info_get_name", handles[h].xc_info,
                       xc_func_info_get_name(handles[h].xc_info))>>
    /\ last' = [op |-> "name", arg |-> h, res |-> Ok(name(handles[h]))]
    /\ UNCHANGED <<keys, heap, handles, ctor_id>>

Query(op, arg, r) ==
    /\ calls' = r.calls
    /\ last' = [op |-> op, arg |-> arg, res |-> r.res]
    /\ UNCHANGED <<keys, heap, handles, ctor_id>>

FunctionalNumber(nm) == Query("functional_number", nm, functional_number(nm))

FunctionalName(id, bld) == Query("functional_name", id, functional_name(id, bld))

NumberOfFunctionals ==
    Query("number_of_functionals", <<>>,
          [res |-> Ok(number_of_functionals.res), calls |-> number_of_functionals.calls])

AvailableFunctionalNumbers(bld) ==
    Query("available_functional_numbers", <<>>, available_functional_numbers(bld))

AvailableFunctionalNames(bld) ==
    Query("available_functional_names", <<>>, available_functional_names(bld))

\* The Functional handle: construction, clone, drop and the metadata queries.
Next ==
    \/ \E h \in 1..MaxHandles, id \in IdInputs, p \in Polarizations, c \in InitFailCodes :
          FromId(h, id, p, c)
    \/ \E h \in 1..MaxHandles, nm \in NameInputs, p \in Polarizations, c \in InitFailCodes :
          FromName(h, nm, p, c)
    \/ \E h, h2 \in 1..MaxHandles : Clone(h, h2)
    \/ \E h \in 1..MaxHandles : Drop(h)
    \/ \E h \in 1..MaxHandles : Number(h)
    \/ \E h \in 1..MaxHandles : Name(h)

Spec == Init /\ [][Next]_vars

\* The library query functions, which need no handle.
QueryNext ==
    \/ \E nm \in NameInputs : FunctionalNumber(nm)
    \/ \E id \in IdInputs, bld \in Builds : FunctionalName(id, bld)
    \/ NumberOfFunctionals
    \/ \E bld \in Builds : AvailableFunctionalNumbers(bld)
    \/ \E bld \in Builds : AvailableFunctionalNames(bld)

QuerySpec == Init /\ [][QueryNext]_vars

\* The buffer length computation alone, over every count 0..MaxCount the
\* native library could report.
ComputeLength(n, bld) ==
    /\ calls' = <<Call("xc_number_of_functionals", <<>>, n)>>
    /\ last' = [op |-> "buffer_length", arg |-> <<n, bld.checks>>,
                res |-> BufferLength(n, bld)]
    /\ UNCHANGED <<keys, heap, handles, ctor_id>>

LengthNext == \E n \in 0..MaxCount, bld \in Builds : ComputeLength(n, bld)

LengthInit == Init /\ keys = <<>>

LengthSpec == LengthInit /\ [][LengthNext]_vars

----------------------------------------------------------------------------
(* Properties. *)

CallsTo(f) == {i \in 1..Len(calls) : calls[i].fn = f}
BoundHandles == {h \in 1..MaxHandles : Bound(h)}
Constructing == last.op \in {"from_id", "from_name"}
FailedInit == /\ Constructing
              /\ last.res.kind = "Err"
              /\ last.res.val[1] = "FailedInitialization"

\* C1: a clone owns its own native allocation: no two Functional values hold
\* the same xc_func pointer, no Functional holds a freed allocation, and no
\* allocation is freed twice.
C1_CloneOwnsItsAllocation ==
    /\ \A h1, h2 \in BoundHandles :
          h1 # h2 => handles[h1].xc_func # handles[h2].xc_func
    /\ \A h \in BoundHandles : heap[handles[h].xc_func].state = "live"
    /\ \A p \in 1..MaxAllocs : heap[p].frees <= 1

\* C2: the owning pointer of a constructed Functional is non-null, and when
\* the Functional is dropped its native allocation is released, exactly once.
C2_ReleasedExactlyOnceAtDrop ==
    /\ \A h \in BoundHandles : handles[h].xc_func # NULL
    /\ last.op = "drop" =>
          /\ heap[last.res.val.xc_func].state = "freed"
          /\ heap[last.res.val.xc_func].frees = 1

\* C3: when xc_func_init returns a nonzero status c, from_id returns
\* Err(FailedInitialization(c)), no Functional holds the instance, and
\* xc_func_init is the last native call made; xc_func_get_info is called
\* only on an instance whose initialization returned 0.
C3_FailedInitIsReported ==
    Constructing =>
       /\ \A i \in CallsTo("xc_func_init") :
             calls[i].ret # 0 =>
                /\ last.res = Err(FailedInitialization(calls[i].ret))
                /\ i = Len(calls)
                /\ \A h \in BoundHandles : handles[h].xc_func # calls[i].arg[1]
       /\ \A i \in CallsTo("xc_func_get_info") :
             \E j \in CallsTo("xc_func_init") :
                j < i /\ calls[j].ret = 0 /\ calls[j].arg[1] = calls[i].arg

C3_Witness ==
    /\ last.op = "from_id"
    /\ last.res.kind = "Err"
    /\ \E i \in CallsTo("xc_func_init") : calls[i].ret = 1

\* C4: when xc_func_init returns a nonzero status, the allocation from_id
\* made for the call is no longer live when from_id returns.
C4_FailedInitReleasesAllocation ==
    FailedInit => \A i \in CallsTo("xc_func_alloc") : heap[calls[i].ret].state # "live"

\* C5: functional_name(id) returns Err(InvalidID) without calling
\* xc_functional_get_name when id is not among available_functional_numbers(),
\* returns Ok with the native name when it is, and xc_functional_get_name is
\* never called with an ID outside that set.
C5_NameLookupOnlyForEnumerated ==
    \A bld \in Builds :
       LET numbers == available_functional_numbers(bld).res
       IN  /\ numbers.kind = "Ok"
           /\ \A i \in CallsTo("xc_functional_get_name") :
                 calls[i].arg \in Range(numbers.val)
           /\ last.op = "functional_name" =>
                 IF last.arg \in Range(numbers.val)
                 THEN /\ last.res.kind = "Ok"
                      /\ last.res.val = xc_functional_get_name(last.arg)
                      /\ \E i \in CallsTo("xc_functional_get_name") :
                            calls[i].arg = last.arg
                 ELSE /\ last.res.kind = "Err"
                      /\ last.res.val = InvalidID
                      /\ CallsTo("xc_functional_get_name") = {}

C5_Witness ==
    /\ last.op = "functional_name"
    /\ keys # <<>>
    /\ last.arg \in 0..MaxId
    /\ last.arg \notin Range(keys)
    /\ last.res.kind = "Err"

\* C6: a from_name whose name lookup fails returns that InvalidName error
\* and allocates and initializes nothing; otherwise its result, and its
\* effect on the native heap, are those of from_id on the resolved ID.
C6_FromNameDelegates ==
    [][last'.op = "from_name" =>
          LET nm == last'.arg[1]
              p == last'.arg[2]
              r == functional_number(nm)
          IN  IF r.res.kind = "Ok"
              THEN \E c \in InitFailCodes :
                      LET f == from_id(heap, r.res.val, p, c)
                      IN  /\ last'.res = f.res
                          /\ heap' = f.heap
                          /\ calls' = r.calls \o f.calls
              ELSE /\ last'.res = r.res
                   /\ nm # NulName => last'.res = Err(InvalidName)
                   /\ heap' = heap
                   /\ handles' = handles
                   /\ \A i \in 1..Len(calls') :
                         calls'[i].fn \notin {"xc_func_alloc", "xc_func_init"}]_vars

C6_Witness ==
    /\ last.op = "from_name"
    /\ last.arg[1] = BadName
    /\ last.res.kind = "Err"
    /\ last.res.val = InvalidName
    /\ \A p \in 1..MaxAllocs : heap[p].state = "unalloc"

\* C7: functional_number returns Err(InvalidName) exactly when
\* xc_functional_get_number returns a negative value, and Ok(n) with the
\* native value n when n >= 0, 0 included.
C7_NegativeIsInvalidName ==
    last.op = "functional_number" =>
       \/ /\ last.arg = NulName
          /\ last.res.kind = "panic"
          /\ calls = <<>>
       \/ /\ last.arg # NulName
          /\ Len(calls) = 1
          /\ calls[1].fn = "xc_functional_get_number"
          /\ calls[1].arg = last.arg
          /\ LET n == calls[1].ret
             IN  /\ n < 0 <=> (last.res.kind = "Err" /\ last.res.val = InvalidName)
                 /\ n >= 0 => (last.res.kind = "Ok" /\ last.res.val = n)

C7_Witness ==
    /\ last.op = "functional_number"
    /\ Len(calls) = 1
    /\ calls[1].ret = 0
    /\ last.res.kind = "Ok"

\* C8: available_functional_numbers returns number_of_functionals() - 1 IDs,
\* each written by xc_available_functional_numbers into a buffer of that
\* capacity, and available_functional_names returns as many names, the i-th
\* the name of the i-th enumerated ID.
C8_EnumerationLength ==
    LET n == number_of_functionals.res
    IN  /\ last.op = "available_functional_numbers" =>
             /\ last.res.kind = "Ok"
             /\ Len(last.res.val) = n - 1
             /\ last.res.val = xc_available_functional_numbers
             /\ \E i \in CallsTo("xc_available_functional_numbers") :
                   calls[i].arg = n - 1 /\ calls[i].ret = n - 1
        /\ last.op = "available_functional_names" =>
             /\ last.res.kind = "Ok"
             /\ Len(last.res.val) = n - 1
             /\ \A bld \in Builds :
                   LET numbers == available_functional_numbers(bld).res
                   IN  /\ numbers.kind = "Ok"
                       /\ Len(numbers.val) = Len(last.res.val)
                       /\ \A i \in 1..Len(numbers.val) :
                             last.res.val[i] = xc_functional_get_name(numbers.val[i])

C8_Witness ==
    /\ last.op = "available_functional_names"
    /\ last.res.kind = "Ok"
    /\ Len(last.res.val) >= 2
    /\ last.res.val[1] = NameOf(1)
    /\ last.res.val[2] = NameOf(0)

\* C9: from_id succeeds for every enumerated ID and either polarization, and
\* number() on a Functional returns the ID it was constructed with, at every
\* call while the Functional is held.
C9_NumberIsConstructionId ==
    /\ \A h \in BoundHandles : number(handles[h]) = ctor_id[h]
    /\ last.op = "number" => last.res = Ok(ctor_id[last.arg])
    /\ last.op = "from_id" =>
          \A bld \in Builds :
             LET numbers == available_functional_numbers(bld).res
             IN  (numbers.kind = "Ok" /\ last.arg[1] \in Range(numbers.val)) =>
                    /\ last.res.kind = "Ok"
                    /\ number(last.res.val) = last.arg[1]

C9_Witness ==
    /\ last.op = "number"
    /\ Cardinality(BoundHandles) = 2
    /\ ctor_id[last.arg] = 2
    /\ last.res = Ok(2)

\* C10: for every count n >= 0 the buffer length computed from it is a value
\* no larger than n: the subtraction neither wraps nor aborts.
C10_LengthNeverExceedsCount ==
    last.op = "buffer_length" =>
       /\ last.res.kind = "Ok"
       /\ UsizeLeq(last.res.val, I32AsUsize(last.arg[1]))

====
